---- MODULE Spec2Model ----
(***************************************************************************)
(* Model of SQLiteStorageProvider (agent-tars session/event store).        *)
(* The database file is the pair of tables (sessions, events) plus the     *)
(* AUTOINCREMENT counter; the provider instance adds the flag              *)
(* `initialized` and the handle state `isOpen`.  Every statement runs in   *)
(* autocommit mode: the code opens no transaction.                         *)
(***************************************************************************)
EXTENDS Integers, Naturals, Sequences, FiniteSets, TLC

(* ---- bounds ---- *)
MaxTime == 2
MaxEvents == 3      \* events ever inserted, in Spec
MaxCallEvents == 1  \* events ever inserted, in SpecCalls
MaxMetaEvents == 1  \* events ever inserted, in SpecMeta
MaxCorruptEvents == 2  \* events ever inserted, in SpecCorrupt
MaxInFlight == 2  \* updateSessionMetadata calls suspended together, in SpecAsync

SessionIds == {"s1", "s2"}
\* createdAt / updatedAt as given by the caller; 0 stands for a falsy value
\* (undefined or 0), which `metadata.createdAt || Date.now()` replaces.
TimeInputs == {0, MaxTime}

\* Optional values: <<>> is undefined / SQL NULL, <<v>> is the value v.
None == <<>>
Some(v) == <<v>>

NameInputs == {None, Some(""), Some("n1")}
DirInputs == {"w1", "w2"}
TagsInputs == {None, Some(<<"t">>)}
Payloads == {[type |-> "a"], [type |-> "b"]}
\* the payload of the k-th event inserted, where a specification fixes it
LogPayload(k) == IF k % 2 = 1 THEN [type |-> "a"] ELSE [type |-> "b"]

VARIABLES
  initialized,  \* this.initialized
  isOpen,       \* this.db.isOpen
  sessions,     \* table sessions: id -> row
  events,       \* table events: set of rows
  seq,          \* sqlite_sequence of events (last AUTOINCREMENT id)
  now,          \* Date.now()
  lastOp,       \* the last call and what it returned or threw
  appended,     \* the events inserted by saveEvent and not deleted since, in call order
  pending       \* the updateSessionMetadata calls suspended at `await getSessionMetadata`, oldest first

vars == <<initialized, isOpen, sessions, events, seq, now, lastOp, appended, pending>>
store == <<sessions, events, seq>>

(* ---- JSON text, as a sequence of tokens ---- *)
StringifyTags(tags) == <<"[">> \o tags \o <<"]">>
ParseTags(text) == SubSeq(text, 2, Len(text) - 1)
StringifyEvent(event) == <<"{", "type", event.type, "}">>
WellFormedEvent(text) ==
  Len(text) = 4 /\ text[1] = "{" /\ text[2] = "type" /\ text[4] = "}"
\* a faulty variant of ParseEvent: the key is read where the value is
ParseEventKey(text) == [type |-> text[2]]
ParseEvent(text) == [type |-> text[3]]

(* ---- errors: the chain of messages, outermost wrapper first ---- *)
NoError == <<>>
NotFoundMsg == "Session not found"
NotOpenMsg == "database is not open"
Wrap(prefix, err) == <<prefix>> \o err
IsSessionNotFound(err) == \E i \in 1..Len(err) : err[i] = NotFoundMsg
IsNotOpen(err) == \E i \in 1..Len(err) : err[i] = NotOpenMsg

(* ---- the state of the store (the database file) ---- *)
Exists(id) == id \in DOMAIN sessions
EventsOf(id) == {e \in events : e.sessionId = id}
RemoveSession(id) == [s \in DOMAIN sessions \ {id} |-> sessions[s]]
PutSession(id, row) == [s \in DOMAIN sessions \cup {id} |-> IF s = id THEN row ELSE sessions[s]]
\* `appended` without the events of session id
AppendedWithout(id) == SelectSeq(appended, LAMBDA a : a.sessionId # id)
AppendedTo(id) == SelectSeq(appended, LAMBDA a : a.sessionId = id)

(* ---- the record of a call ---- *)
\* op, id, partial: the call (partial is the argument of updateSessionMetadata);
\* err: what it threw (NoError when it returned); recs, evs, flag: the session
\* records, the events or the boolean it returned; pre: the store as the call
\* found it.
\* A field of the partial is None when its key is absent or undefined; the keys
\* that are present with the value undefined are listed in `undefined`.
NoPartial ==
  [name |-> None, workingDirectory |-> None, tags |-> None, createdAt |-> None,
   undefined |-> {}]
Call(op, id, partial, err, recs, evs, flag) ==
  [op |-> op, id |-> id, partial |-> partial, err |-> err, recs |-> recs,
   evs |-> evs, flag |-> flag,
   pre |-> [initialized |-> initialized, isOpen |-> isOpen, exists |-> Exists(id),
            events |-> Cardinality(EventsOf(id))]]

(* ---- initialize / ensureInitialized ---- *)
AlreadyOpenMsg == "database is already open"
\* a faulty variant of NeedsInit: initialize without the guard on the flag
AlwaysInit == TRUE
NeedsInit == ~initialized
\* db.open() throws on a handle that is already open; initialize rethrows.
InitError == IF NeedsInit /\ isOpen THEN <<AlreadyOpenMsg>> ELSE NoError
InitializedAfter == initialized \/ (NeedsInit /\ InitError = NoError)
OpenAfter == isOpen \/ NeedsInit
EnsureInitialized ==
  /\ initialized' = InitializedAfter
  /\ isOpen' = OpenAfter
\* Every data operation begins with `await this.ensureInitialized()` and is
\* suspended there: its statements run in a later turn of the event loop, and
\* other calls (a close() among them) may run in between.  The statements of
\* an operation therefore run with the flag set, and touch neither the flag nor
\* the handle.  When the flag is set already, the first part of the call does
\* nothing; when it is not, it is the step StartCall.
AfterEnsureInitialized ==
  /\ initialized
  /\ UNCHANGED <<initialized, isOpen>>
\* What a data operation throws before it reaches its own statements: the error
\* of prepare() on a handle that is not open, inside the operation's try block,
\* hence wrapped.
PreError(prefix) ==
  IF ~isOpen THEN Wrap(prefix, <<NotOpenMsg>>) ELSE NoError

Init ==
  /\ initialized = FALSE
  /\ isOpen = FALSE
  /\ sessions = <<>>
  /\ events = {}
  /\ seq = 0
  /\ now = 1
  /\ lastOp = Call("new", "", NoPartial, NoError, <<>>, <<>>, FALSE)
  /\ appended = <<>>
  /\ pending = <<>>

\* Date.now() advances between calls (and, in createSession and
\* getSessionEvents, between two readings inside a call).
Tick ==
  /\ now < MaxTime
  /\ now' = now + 1
  /\ UNCHANGED <<initialized, isOpen, sessions, events, seq, lastOp, appended, pending>>

\* A data operation is called on a provider whose flag is not set: it runs
\* initialize() and is suspended.  When initialize() throws, the call ends with
\* that error.
StartCall ==
  /\ ~initialized
  /\ EnsureInitialized
  /\ lastOp' = Call("ensureInitialized", "", NoPartial, InitError, <<>>, <<>>, FALSE)
  /\ UNCHANGED <<sessions, events, seq, now, appended, pending>>

Initialize ==
  /\ EnsureInitialized
  /\ lastOp' = Call("initialize", "", NoPartial, InitError, <<>>, <<>>, FALSE)
  /\ UNCHANGED <<sessions, events, seq, now, appended, pending>>

\* a faulty variant of CloseGuard: db.close() is called whatever the handle's state
AlwaysClose == TRUE
\* if (this.db && this.db.isOpen)
CloseGuard == isOpen
\* db.close() throws on a handle that is not open
CloseError == IF CloseGuard /\ ~isOpen THEN <<NotOpenMsg>> ELSE NoError
Close ==
  /\ isOpen' = FALSE
  /\ lastOp' = Call("close", "", NoPartial, CloseError, <<>>, <<>>, FALSE)
  /\ UNCHANGED <<initialized, sessions, events, seq, now, appended, pending>>

(* ---- createSession ---- *)
MetadataInputs ==
  [id : SessionIds, createdAt : TimeInputs, updatedAt : TimeInputs,
   name : NameInputs, workingDirectory : DirInputs, tags : TagsInputs]

\* `metadata.createdAt || Date.now()` and `metadata.updatedAt || Date.now()`
\* read the clock one after the other: when both are defaulted, the second
\* reading (later) may be greater than the first (now).
ClockReads(metadata) ==
  IF metadata.createdAt = 0 /\ metadata.updatedAt = 0 THEN now..MaxTime ELSE {now}
SessionData(metadata, later) ==
  [metadata EXCEPT !.createdAt = IF metadata.createdAt # 0 THEN metadata.createdAt ELSE now,
                   !.updatedAt = IF metadata.updatedAt # 0 THEN metadata.updatedAt ELSE later]
\* `x || null` for a string column: undefined and "" are stored as NULL
OrNull(opt) == IF opt = None \/ opt = Some("") THEN None ELSE opt
TagsJson(opt) == IF opt = None THEN None ELSE Some(StringifyTags(opt[1]))
NewRow(data) ==
  [createdAt |-> data.createdAt, updatedAt |-> data.updatedAt,
   name |-> OrNull(data.name), workingDirectory |-> data.workingDirectory,
   tags |-> TagsJson(data.tags)]
CreateError(metadata) ==
  IF PreError("Failed to create session") # NoError THEN PreError("Failed to create session")
  ELSE IF Exists(metadata.id)
    THEN <<"Failed to create session", "UNIQUE constraint failed: sessions.id">>
  ELSE NoError

CreateSession(metadata) ==
  /\ AfterEnsureInitialized
  /\ \E later \in ClockReads(metadata) :
       /\ now' = later
       /\ IF CreateError(metadata) # NoError
            THEN /\ lastOp' = Call("createSession", metadata.id, NoPartial,
                                   CreateError(metadata), <<>>, <<>>, FALSE)
                 /\ UNCHANGED sessions
            ELSE /\ sessions' = PutSession(metadata.id, NewRow(SessionData(metadata, later)))
                 /\ lastOp' = Call("createSession", metadata.id, NoPartial, NoError,
                                   <<SessionData(metadata, later)>>, <<>>, FALSE)
  /\ UNCHANGED <<events, seq, appended, pending>>

(* ---- getSessionMetadata / getAllSessions ---- *)
RowToMetadata(id, row) ==
  [id |-> id, createdAt |-> row.createdAt, updatedAt |-> row.updatedAt,
   name |-> row.name, workingDirectory |-> row.workingDirectory,
   tags |-> IF row.tags = None THEN None ELSE Some(ParseTags(row.tags[1]))]

GetSessionMetadata(id) ==
  /\ AfterEnsureInitialized
  /\ lastOp' = Call("getSessionMetadata", id, NoPartial, PreError("Failed to get session"),
                    IF PreError("Failed to get session") = NoError /\ Exists(id)
                      THEN <<RowToMetadata(id, sessions[id])>> ELSE <<>>,
                    <<>>, FALSE)
  /\ UNCHANGED <<sessions, events, seq, now, appended, pending>>

\* a faulty variant of OrderedByUpdatedAtDesc: ORDER BY updatedAt ASC
OrderedByUpdatedAtAsc(ids) ==
  \A i \in 1..Len(ids) - 1 : sessions[ids[i]].updatedAt <= sessions[ids[i + 1]].updatedAt
\* ORDER BY updatedAt DESC: the order of rows with equal updatedAt is not
\* determined by the query, so every such order is a possible result.
OrderedByUpdatedAtDesc(ids) ==
  \A i \in 1..Len(ids) - 1 : sessions[ids[i]].updatedAt >= sessions[ids[i + 1]].updatedAt
AllSessionsOrders ==
  {ids \in [1..Cardinality(DOMAIN sessions) -> DOMAIN sessions] :
     /\ \A s \in DOMAIN sessions : \E i \in DOMAIN ids : ids[i] = s
     /\ OrderedByUpdatedAtDesc(ids)}

GetAllSessions ==
  /\ AfterEnsureInitialized
  /\ IF PreError("Failed to get all sessions") # NoError
       THEN lastOp' = Call("getAllSessions", "", NoPartial, PreError("Failed to get all sessions"),
                           <<>>, <<>>, FALSE)
       ELSE \E ids \in AllSessionsOrders :
              lastOp' = Call("getAllSessions", "", NoPartial, NoError,
                             [i \in DOMAIN ids |-> RowToMetadata(ids[i], sessions[ids[i]])],
                             <<>>, FALSE)
  /\ UNCHANGED <<sessions, events, seq, now, appended, pending>>

(* ---- updateSessionMetadata ---- *)
\* Partial<Omit<SessionMetadata, 'id'>>.  An updatedAt in the partial has no
\* effect (the merge and the UPDATE both take Date.now()) and is left out.
PartialInputs ==
  [name : NameInputs, workingDirectory : {None} \cup {Some(d) : d \in DirInputs},
   tags : TagsInputs, createdAt : {None}, undefined : {{}}]
\* partials that carry createdAt and nothing else
CreatedAtPartials == {[NoPartial EXCEPT !.createdAt = Some(t)] : t \in TimeInputs}
\* partials with one key present and undefined, e.g. { name: undefined }
UndefinedPartials ==
  {[NoPartial EXCEPT !.undefined = {k}] :
     k \in {"name", "workingDirectory", "tags", "createdAt"}}
\* the workingDirectory of a returned record whose workingDirectory is undefined
UndefinedDir == "undefined"
\* the createdAt of a returned record whose createdAt is undefined (no timestamp
\* of the model is negative)
UndefinedTime == -1

\* { ...session, ...metadata, updatedAt: Date.now() }: the spread copies every
\* own key of metadata, also a key whose value is undefined
UpdatedSession(session, partial) ==
  [session EXCEPT
     !.name = IF "name" \in partial.undefined THEN None
              ELSE IF partial.name # None THEN partial.name ELSE @,
     !.workingDirectory = IF "workingDirectory" \in partial.undefined THEN UndefinedDir
                          ELSE IF partial.workingDirectory # None
                                 THEN partial.workingDirectory[1] ELSE @,
     !.tags = IF "tags" \in partial.undefined THEN None
              ELSE IF partial.tags # None THEN partial.tags ELSE @,
     !.createdAt = IF "createdAt" \in partial.undefined THEN UndefinedTime
                   ELSE IF partial.createdAt # None THEN partial.createdAt[1] ELSE @,
     !.updatedAt = now]
\* a faulty variant of UpdatedRow: a full replace, which writes the absent fields as NULL
ReplacedRow(row, partial) ==
  [row EXCEPT
     !.name = OrNull(partial.name),
     !.workingDirectory = IF partial.workingDirectory # None
                            THEN partial.workingDirectory[1] ELSE @,
     !.tags = TagsJson(partial.tags),
     !.updatedAt = now]
\* the row after UPDATE sessions SET <the clauses of the present fields>
UpdatedRow(row, partial) ==
  [row EXCEPT
     !.name = IF partial.name # None THEN OrNull(partial.name) ELSE @,
     !.workingDirectory = IF partial.workingDirectory # None
                            THEN partial.workingDirectory[1] ELSE @,
     !.tags = IF partial.tags # None THEN TagsJson(partial.tags) ELSE @,
     !.updatedAt = now]
\* what `await this.getSessionMetadata(sessionId)` hands to the continuation:
\* the error of prepare() on a closed handle, or the session, or nothing
ReadError == PreError("Failed to get session")
ReadSession(id) ==
  IF ReadError = NoError /\ Exists(id) THEN Some(RowToMetadata(id, sessions[id])) ELSE None

\* updateSessionMetadata up to `await this.getSessionMetadata(sessionId)`: the
\* SELECT runs and the call is suspended, whatever the SELECT gave; other calls
\* may run before its continuation does.
UpdateSessionMetadataRead(id, partial) ==
  /\ AfterEnsureInitialized
  /\ pending' = Append(pending, [id |-> id, partial |-> partial,
                                 session |-> ReadSession(id), err |-> ReadError])
  /\ lastOp' = Call("updateSessionMetadata: read", id, partial, ReadError,
                    ReadSession(id), <<>>, FALSE)
  /\ UNCHANGED <<sessions, events, seq, now, appended>>

\* prepare() of the UPDATE on a handle that was closed in the meantime
WriteError == IF ~isOpen THEN Wrap("Failed to update session", <<NotOpenMsg>>) ELSE NoError
\* What the continuation throws: the rejection of getSessionMetadata as it is
\* (the await is outside the try block), 'Session not found' when the SELECT
\* gave no row, else the error of the UPDATE.
UpdateError(call) ==
  IF call.err # NoError THEN call.err
  ELSE IF call.session = None THEN <<NotFoundMsg>>
  ELSE WriteError
\* UPDATE sessions SET ... WHERE id = ?: no row matches when the session is gone
SessionsAfterUpdate(id, partial) ==
  IF Exists(id) THEN PutSession(id, UpdatedRow(sessions[id], partial)) ELSE sessions
\* The continuation of the suspended call that read first: the test of what
\* the SELECT gave, the merge with the session it read, and the UPDATE.  The
\* call ends here, on the store as it is now.
UpdateSessionMetadataWrite ==
  /\ pending # <<>>
  /\ IF UpdateError(pending[1]) # NoError
       THEN /\ lastOp' = Call("updateSessionMetadata", pending[1].id, pending[1].partial,
                              UpdateError(pending[1]), <<>>, <<>>, FALSE)
            /\ UNCHANGED sessions
       ELSE /\ sessions' = SessionsAfterUpdate(pending[1].id, pending[1].partial)
            /\ lastOp' = Call("updateSessionMetadata", pending[1].id, pending[1].partial, NoError,
                              <<UpdatedSession(pending[1].session[1], pending[1].partial)>>,
                              <<>>, FALSE)
  /\ pending' = Tail(pending)
  /\ UNCHANGED <<initialized, isOpen, events, seq, now, appended>>

(* ---- deleteSession ---- *)
DeletePrefix == "Failed to delete session"
\* a faulty variant of EventsAfterDeleteEvents: the events are not deleted
EventsKept(id) == events
\* a faulty variant of EventsAfterDeleteEvents: DELETE FROM events, without WHERE
EventsAllDeleted(id) == {}
\* DELETE FROM events WHERE sessionId = ?
EventsAfterDeleteEvents(id) == events \ EventsOf(id)
\* a faulty variant of DeleteChanges: one row is reported whatever was deleted
OneChange(id) == 1
\* DELETE FROM sessions WHERE id = ? ; result.changes > 0
DeleteChanges(id) == IF Exists(id) THEN 1 ELSE 0

DeleteSession(id) ==
  /\ AfterEnsureInitialized
  /\ IF PreError(DeletePrefix) # NoError
       THEN /\ lastOp' = Call("deleteSession", id, NoPartial, PreError(DeletePrefix), <<>>, <<>>, FALSE)
            /\ UNCHANGED <<sessions, events, appended>>
       ELSE /\ events' = EventsAfterDeleteEvents(id)
            /\ sessions' = RemoveSession(id)
            /\ appended' = AppendedWithout(id)
            /\ lastOp' = Call("deleteSession", id, NoPartial, NoError, <<>>, <<>>, DeleteChanges(id) > 0)
  /\ UNCHANGED <<seq, now, pending>>

\* The process dies between the two statements: the first one has committed
\* (autocommit), the second one never runs.  The file is later opened by a new
\* provider instance.
DeleteSessionCrash(id) ==
  /\ initialized
  /\ PreError(DeletePrefix) = NoError
  /\ initialized' = FALSE
  /\ isOpen' = FALSE
  /\ events' = EventsAfterDeleteEvents(id)
  /\ appended' = AppendedWithout(id)
  /\ lastOp' = Call("crash in deleteSession", id, NoPartial, NoError, <<>>, <<>>, FALSE)
  /\ pending' = <<>>
  /\ UNCHANGED <<sessions, seq, now>>

(* ---- saveEvent ---- *)
SavePrefix == "Failed to save event"
SaveError(id) ==
  IF PreError(SavePrefix) # NoError THEN PreError(SavePrefix)
  ELSE IF ~Exists(id) THEN Wrap(SavePrefix, <<NotFoundMsg>>)
  ELSE NoError
\* a faulty variant of NewEventRow: id INTEGER PRIMARY KEY without AUTOINCREMENT,
\* the largest id in the table plus one
NewEventRowAfterLargest(id, event) ==
  [id |-> IF events = {} THEN 1 ELSE 1 + CHOOSE k \in {e.id : e \in events} : \A e \in events : e.id <= k,
   sessionId |-> id, timestamp |-> now, eventData |-> StringifyEvent(event)]
\* INSERT INTO events (sessionId, timestamp, eventData): id is AUTOINCREMENT
NewEventRow(id, event) ==
  [id |-> seq + 1, sessionId |-> id, timestamp |-> now, eventData |-> StringifyEvent(event)]
\* UPDATE sessions SET updatedAt = ? WHERE id = ?
TouchedRow(row, timestamp) == [row EXCEPT !.updatedAt = timestamp]

SaveEvent(id, event) ==
  /\ AfterEnsureInitialized
  /\ IF SaveError(id) # NoError
       THEN /\ lastOp' = Call("saveEvent", id, NoPartial, SaveError(id), <<>>, <<>>, FALSE)
            /\ UNCHANGED <<sessions, events, seq, appended>>
       ELSE /\ events' = events \cup {NewEventRow(id, event)}
            /\ seq' = seq + 1
            /\ appended' = Append(appended, [id |-> seq + 1, sessionId |-> id, event |-> event])
            /\ sessions' = PutSession(id, TouchedRow(sessions[id], NewEventRow(id, event).timestamp))
            /\ lastOp' = Call("saveEvent", id, NoPartial, NoError, <<>>, <<>>, FALSE)
  /\ UNCHANGED <<now, pending>>

\* The process dies between the INSERT, which has committed, and the UPDATE.
SaveEventCrash(id, event) ==
  /\ initialized
  /\ SaveError(id) = NoError
  /\ initialized' = FALSE
  /\ isOpen' = FALSE
  /\ events' = events \cup {NewEventRow(id, event)}
  /\ seq' = seq + 1
  /\ appended' = Append(appended, [id |-> seq + 1, sessionId |-> id, event |-> event])
  /\ lastOp' = Call("crash in saveEvent", id, NoPartial, NoError, <<>>, <<>>, FALSE)
  /\ pending' = <<>>
  /\ UNCHANGED <<sessions, now>>

(* ---- getSessionEvents ---- *)
EventsPrefix == "Failed to get session events"
EventsError(id) ==
  IF PreError(EventsPrefix) # NoError THEN PreError(EventsPrefix)
  ELSE IF ~Exists(id) THEN Wrap(EventsPrefix, <<NotFoundMsg>>)
  ELSE NoError
\* a faulty variant of RowBefore: ORDER BY timestamp ASC, id DESC
RowBeforeIdDesc(r, q) ==
  r.timestamp < q.timestamp \/ (r.timestamp = q.timestamp /\ r.id > q.id)
\* ORDER BY timestamp ASC, id ASC
RowBefore(r, q) ==
  r.timestamp < q.timestamp \/ (r.timestamp = q.timestamp /\ r.id < q.id)
RECURSIVE OrderRows(_)
OrderRows(rows) ==
  IF rows = {} THEN <<>>
  ELSE LET first == CHOOSE r \in rows : \A q \in rows \ {r} : RowBefore(r, q)
       IN <<first>> \o OrderRows(rows \ {first})
SelectEventRows(id) == OrderRows(EventsOf(id))
\* JSON.parse, with the placeholder for a payload that does not parse; reading
\* is the value of Date.now() when the row is decoded
DecodeRow(row, reading) ==
  IF WellFormedEvent(row.eventData) THEN ParseEvent(row.eventData)
  ELSE [type |-> "system", message |-> "Failed to parse event data", timestamp |-> reading]
\* The clock as rows.map goes through the rows: it starts at now and is read
\* once for every row that does not parse; it may have advanced between two
\* such readings.
ClockReadings(rows) ==
  {t \in [1..Len(rows) -> now..MaxTime] :
     \A i \in 1..Len(rows) :
       /\ (\A j \in 1..i - 1 : WellFormedEvent(rows[j].eventData)) => t[i] = now
       /\ i > 1 => t[i] >= t[i - 1]
       /\ (i > 1 /\ WellFormedEvent(rows[i].eventData)) => t[i] = t[i - 1]}
ClockAfter(t) == IF Len(t) = 0 THEN now ELSE t[Len(t)]
\* a faulty variant of SessionEvents: rows that do not parse are left out
SessionEventsParsed(id, t) ==
  LET parsed == SelectSeq(SelectEventRows(id), LAMBDA row : WellFormedEvent(row.eventData))
  IN [i \in 1..Len(parsed) |-> DecodeRow(parsed[i], now)]
SessionEvents(id, t) ==
  [i \in 1..Len(SelectEventRows(id)) |-> DecodeRow(SelectEventRows(id)[i], t[i])]

GetSessionEvents(id) ==
  /\ AfterEnsureInitialized
  /\ IF EventsError(id) # NoError
       THEN /\ lastOp' = Call("getSessionEvents", id, NoPartial, EventsError(id),
                              <<>>, <<>>, FALSE)
            /\ now' = now
       ELSE \E t \in ClockReadings(SelectEventRows(id)) :
              /\ lastOp' = Call("getSessionEvents", id, NoPartial, NoError, <<>>,
                                SessionEvents(id, t), FALSE)
              /\ now' = ClockAfter(t)
  /\ UNCHANGED <<sessions, events, seq, appended, pending>>

(* ---- a damaged database file ---- *)
\* Text that JSON.parse rejects: garbage, and a payload cut short.
CorruptTexts == {<<"#">>, <<"{", "type", "a">>}
MarkCorrupt(a) == [id |-> a.id, sessionId |-> a.sessionId, event |-> a.event, corrupt |-> TRUE]
\* The eventData of one stored event is overwritten outside the provider.
Corrupt(e, text) ==
  /\ e \in events
  /\ WellFormedEvent(e.eventData)
  /\ events' = (events \ {e}) \cup {[e EXCEPT !.eventData = text]}
  /\ appended' = [k \in DOMAIN appended |->
                    IF appended[k].id = e.id THEN MarkCorrupt(appended[k]) ELSE appended[k]]
  /\ lastOp' = Call("corrupt", e.sessionId, NoPartial, NoError, <<>>, <<>>, FALSE)
  /\ UNCHANGED <<initialized, isOpen, sessions, seq, now, pending>>

(* ---- specifications ---- *)
\* The AUTOINCREMENT counter is capped: a saveEvent that would insert is taken
\* only while fewer than max events were ever inserted.
HasRoom(max, id) == SaveError(id) = NoError => seq < max

PlainMetadata == {m \in MetadataInputs :
                    m.name = None /\ m.tags = None /\ m.workingDirectory = "w1"}
DefaultTimes(m) == m.createdAt = 0 /\ m.updatedAt = 0

\* The caller awaits each call before it makes the next one: no call starts
\* while an updateSessionMetadata is suspended.
Awaited == pending = <<>>

\* Spec: the event log.  Calls are awaited, sessions are created with the
\* default timestamps and without name and tags, the payloads of successive
\* events alternate, and the process may die inside the two-statement operations.
Next ==
  \/ Tick
  \/ StartCall
  \/ \E metadata \in PlainMetadata :
       Awaited /\ DefaultTimes(metadata) /\ CreateSession(metadata)
  \/ \E id \in SessionIds : Awaited /\ UpdateSessionMetadataRead(id, NoPartial)
  \/ UpdateSessionMetadataWrite
  \/ \E id \in SessionIds : Awaited /\ DeleteSession(id)
  \/ \E id \in SessionIds : Awaited /\ DeleteSessionCrash(id)
  \/ \E id \in SessionIds :
       Awaited /\ HasRoom(MaxEvents, id) /\ SaveEvent(id, LogPayload(seq + 1))
  \/ \E id \in SessionIds :
       Awaited /\ seq < MaxEvents /\ SaveEventCrash(id, LogPayload(seq + 1))
  \/ \E id \in SessionIds : Awaited /\ GetSessionEvents(id)

Spec == Init /\ [][Next]_vars

\* SpecCalls: every public call, awaited, with initialize and close, and
\* createSession with timestamps given by the caller.
NextCalls ==
  \/ Tick
  \/ StartCall
  \/ Awaited /\ Initialize
  \/ Awaited /\ Close
  \/ \E metadata \in PlainMetadata : Awaited /\ CreateSession(metadata)
  \/ \E id \in SessionIds : Awaited /\ UpdateSessionMetadataRead(id, NoPartial)
  \/ UpdateSessionMetadataWrite
  \/ \E id \in SessionIds : Awaited /\ GetSessionMetadata(id)
  \/ Awaited /\ GetAllSessions
  \/ \E id \in SessionIds : Awaited /\ DeleteSession(id)
  \/ \E id \in SessionIds, event \in Payloads :
       Awaited /\ HasRoom(MaxCallEvents, id) /\ SaveEvent(id, event)
  \/ \E id \in SessionIds : Awaited /\ GetSessionEvents(id)

SpecCalls == Init /\ [][NextCalls]_vars

\* SpecMeta: the metadata of sessions, with awaited calls.  The code treats all
\* session ids alike, so one session (MetaSession) is given every combination
\* of name, workingDirectory and tags in createSession and
\* updateSessionMetadata, and the other one stays plain.
MetaSession == "s1"
MetaMetadata == {m \in MetadataInputs :
                   DefaultTimes(m) /\ (m.id # MetaSession => m \in PlainMetadata)}
NextMeta ==
  \/ Tick
  \/ StartCall
  \/ \E metadata \in MetaMetadata : Awaited /\ CreateSession(metadata)
  \/ \E partial \in PartialInputs \cup CreatedAtPartials \cup UndefinedPartials :
       Awaited /\ UpdateSessionMetadataRead(MetaSession, partial)
  \/ \E id \in SessionIds \ {MetaSession} :
       Awaited /\ UpdateSessionMetadataRead(id, NoPartial)
  \/ UpdateSessionMetadataWrite
  \/ \E id \in SessionIds : Awaited /\ GetSessionMetadata(id)
  \/ \E id \in SessionIds : Awaited /\ DeleteSession(id)
  \/ \E id \in SessionIds :
       Awaited /\ HasRoom(MaxMetaEvents, id) /\ SaveEvent(id, LogPayload(seq + 1))

SpecMeta == Init /\ [][NextMeta]_vars

\* SpecCorrupt: the event log of a database file in which the text of stored
\* events can be damaged.
NextCorrupt ==
  \/ Tick
  \/ StartCall
  \/ \E metadata \in PlainMetadata : DefaultTimes(metadata) /\ CreateSession(metadata)
  \/ \E id \in SessionIds : DeleteSession(id)
  \/ \E id \in SessionIds : HasRoom(MaxCorruptEvents, id) /\ SaveEvent(id, LogPayload(seq + 1))
  \/ \E e \in events, text \in CorruptTexts : Corrupt(e, text)
  \/ \E id \in SessionIds : GetSessionEvents(id)

SpecCorrupt == Init /\ [][NextCorrupt]_vars

\* SpecAsync: calls that are not awaited one by one.  Every statement of the
\* provider is synchronous, so the calls in flight interleave only at
\* `await this.ensureInitialized()` (StartCall) and, in updateSessionMetadata, at
\* the await of its read: close() and the other calls run between the steps of
\* a call, and several updateSessionMetadata calls are suspended together.
\* All calls are about one session.
AsyncSession == "s1"
AsyncMetadata == {m \in PlainMetadata : DefaultTimes(m) /\ m.id = AsyncSession}
AsyncPartials ==
  {[NoPartial EXCEPT !.name = Some("n1")], [NoPartial EXCEPT !.workingDirectory = Some("w2")]}
NextAsync ==
  \/ Tick
  \/ StartCall
  \/ Close
  \/ \E metadata \in AsyncMetadata : CreateSession(metadata)
  \/ \E partial \in AsyncPartials :
       Len(pending) < MaxInFlight /\ UpdateSessionMetadataRead(AsyncSession, partial)
  \/ UpdateSessionMetadataWrite
  \/ GetSessionMetadata(AsyncSession)
  \/ DeleteSession(AsyncSession)

SpecAsync == Init /\ [][NextAsync]_vars

(* ======================= claims ======================= *)
\* a step that is a call, not the mere passing of time
IsCall == lastOp' # lastOp \/ now' = now
DataOps == {"createSession", "updateSessionMetadata", "getSessionMetadata",
            "getAllSessions", "deleteSession", "saveEvent", "getSessionEvents"}

\* C1 (as stated): saveEvent, updateSessionMetadata and getSessionEvents on a
\* session id that is not in the store each fail with "Session not found", and
\* the call leaves the sessions, the events and the id counter unchanged.
C1_MissingSessionFails ==
  [][(IsCall /\ lastOp'.op \in {"saveEvent", "updateSessionMetadata", "getSessionEvents"}
        /\ ~Exists(lastOp'.id))
       => (IsSessionNotFound(lastOp'.err) /\ UNCHANGED store)]_vars

\* C2: every stored event belongs to a session that exists; after a
\* deleteSession(X) that returned, X has no session row and no event row, and
\* getSessionEvents(X) fails with "Session not found".
C2_NoOrphanEvents ==
  /\ \A e \in events : Exists(e.sessionId)
  /\ (lastOp.op = "deleteSession" /\ lastOp.err = NoError)
       => /\ ~Exists(lastOp.id)
          /\ EventsOf(lastOp.id) = {}
          /\ IsSessionNotFound(EventsError(lastOp.id))
\* deleteSession removed a session that had two events; another session keeps its event
C2_Witness ==
  /\ lastOp.op = "deleteSession" /\ lastOp.flag
  /\ lastOp.pre.events >= 2
  /\ events # {}

\* C3 (as stated): whatever happens inside deleteSession(id), also when the
\* process dies between its two statements, the session and its events are
\* either both gone or both still there.
C3_DeleteSessionAtomic ==
  (lastOp.op \in {"deleteSession", "crash in deleteSession"} /\ lastOp.pre.exists)
    => \/ (~Exists(lastOp.id) /\ EventsOf(lastOp.id) = {})
       \/ (Exists(lastOp.id) /\ Cardinality(EventsOf(lastOp.id)) = lastOp.pre.events)

\* C4 (as stated): whatever happens inside saveEvent, also when the process dies
\* between its two statements, either one event row was inserted and the
\* session's updatedAt is that event's timestamp, or nothing was written.
C4_SaveEventAtomic ==
  [][(IsCall /\ lastOp'.op \in {"saveEvent", "crash in saveEvent"})
       => \/ UNCHANGED <<sessions, events>>
          \/ \E e \in events' \ events :
               /\ events' = events \cup {e}
               /\ e.sessionId \in DOMAIN sessions'
               /\ sessions'[e.sessionId].updatedAt = e.timestamp]_vars

\* C5: for every session, the rows getSessionEvents selects are exactly the
\* events appended to it, sorted by (timestamp, id), and (the clock never going
\* back) in the order of the saveEvent calls, whatever was appended to other
\* sessions in between; the call returns their payloads in that order.
C5_EventsInInsertionOrder ==
  /\ \A id \in DOMAIN sessions :
       LET rows == SelectEventRows(id)
           log == AppendedTo(id)
       IN /\ Len(rows) = Len(log)
          /\ {rows[i] : i \in 1..Len(rows)} = EventsOf(id)
          /\ \A i \in 1..Len(rows) : rows[i].id = log[i].id
          /\ \A i, j \in 1..Len(rows) :
               i < j => \/ rows[i].timestamp < rows[j].timestamp
                        \/ (rows[i].timestamp = rows[j].timestamp /\ rows[i].id < rows[j].id)
  /\ (lastOp.op = "getSessionEvents" /\ lastOp.err = NoError)
       => lastOp.evs = [i \in 1..Len(AppendedTo(lastOp.id)) |-> AppendedTo(lastOp.id)[i].event]
\* getSessionEvents returned the two events of s1, which share a timestamp and
\* between which an event was appended to s2
C5_Witness ==
  /\ lastOp.op = "getSessionEvents" /\ lastOp.id = "s1" /\ Len(lastOp.evs) = 2
  /\ {e.id : e \in EventsOf("s1")} = {1, 3}
  /\ {e.id : e \in EventsOf("s2")} = {2}
  /\ \A e \in events : e.timestamp = now

\* C6 (as stated): a data operation never fails because the store is not open;
\* when it is called on a store that is not ready it initializes it first, so
\* the store is initialized and open when the call ends.
C6_OperationsEnsureReady ==
  lastOp.op \in DataOps => (initialized /\ isOpen /\ ~IsNotOpen(lastOp.err))

\* C7: initialize on a store that is already initialized raises no error, opens
\* nothing and leaves the flag, the handle, the sessions and the events as they
\* were; initialize on a store that is not initialized opens it and sets the flag
\* without touching the stored data.
C7_InitializeIdempotent ==
  [][(IsCall /\ lastOp'.op = "initialize")
       => /\ lastOp'.err = NoError
          /\ UNCHANGED store
          /\ initialized'
          /\ (initialized => UNCHANGED <<initialized, isOpen>>)
          /\ (~initialized => isOpen')]_vars
\* initialize was called on an initialized, open store that holds a session
C7_Witness ==
  /\ lastOp.op = "initialize"
  /\ lastOp.pre.initialized /\ lastOp.pre.isOpen
  /\ sessions # <<>>

\* C8: a successful updateSessionMetadata(id, partial) sets the stored fields
\* present in partial, leaves name, workingDirectory and tags unchanged when they
\* are absent from partial, never changes createdAt, always sets updatedAt to
\* the current time, and changes no other session and no event.
C8_SparseUpdate ==
  [][(IsCall /\ lastOp'.op = "updateSessionMetadata" /\ lastOp'.err = NoError)
       => LET id == lastOp'.id
              partial == lastOp'.partial
          IN /\ Exists(id)
             /\ DOMAIN sessions' = DOMAIN sessions
             /\ partial.name = None => sessions'[id].name = sessions[id].name
             /\ partial.workingDirectory = None
                  => sessions'[id].workingDirectory = sessions[id].workingDirectory
             /\ partial.workingDirectory # None
                  => sessions'[id].workingDirectory = partial.workingDirectory[1]
             /\ partial.tags = None => sessions'[id].tags = sessions[id].tags
             /\ sessions'[id].createdAt = sessions[id].createdAt
             /\ sessions'[id].updatedAt = now
             /\ \A other \in DOMAIN sessions \ {id} : sessions'[other] = sessions[other]
             /\ UNCHANGED <<events, seq>>]_vars
\* updateSessionMetadata(s1, {name}) succeeded on a session that has tags, a
\* changed workingDirectory and an event, at a time later than its creation,
\* while another session exists
C8_Witness ==
  /\ lastOp.op = "updateSessionMetadata" /\ lastOp.err = NoError /\ lastOp.id = "s1"
  /\ lastOp.partial.name = Some("n1")
  /\ lastOp.partial.workingDirectory = None /\ lastOp.partial.tags = None
  /\ sessions["s1"].tags # None /\ sessions["s1"].workingDirectory = "w2"
  /\ sessions["s1"].createdAt < sessions["s1"].updatedAt
  /\ EventsOf("s1") # {}
  /\ "s2" \in DOMAIN sessions

\* C9 (as stated): every stored session has updatedAt >= createdAt.
C9_UpdatedNotBeforeCreated ==
  \A id \in DOMAIN sessions : sessions[id].updatedAt >= sessions[id].createdAt

\* C10 (as stated): while a session exists, no step makes its stored updatedAt
\* smaller (the clock never goes back).
C10_UpdatedAtNeverDecreases ==
  [][\A id \in DOMAIN sessions \cap DOMAIN sessions' :
       sessions'[id].updatedAt >= sessions[id].updatedAt]_vars

\* C11 (as stated): createSession with an id that is already in the store fails
\* with the uniqueness violation on sessions.id, and the call leaves every
\* session row, every event and the id counter as they were.
IsDuplicate(err) == \E i \in 1..Len(err) : err[i] = "UNIQUE constraint failed: sessions.id"
C11_DuplicateCreateFails ==
  [][(IsCall /\ lastOp'.op = "createSession" /\ Exists(lastOp'.id))
       => (IsDuplicate(lastOp'.err) /\ UNCHANGED store)]_vars

\* C12: a deleteSession(id) that returns, returns true exactly when the session
\* existed when it was called; a deleteSession(id) that directly follows a
\* deleteSession(id) that returned raises no error, returns false and leaves
\* the sessions, the events and the id counter unchanged.
C12_DeleteSessionFlag ==
  [][(IsCall /\ lastOp'.op = "deleteSession")
       => /\ lastOp'.err = NoError
               => /\ lastOp'.flag <=> Exists(lastOp'.id)
                  /\ ~(lastOp'.id \in DOMAIN sessions')
          /\ (lastOp.op = "deleteSession" /\ lastOp.err = NoError /\ lastOp.id = lastOp'.id)
               => (lastOp'.err = NoError /\ ~lastOp'.flag /\ UNCHANGED store)]_vars
\* deleteSession(s1) returned false on a store from which the session that held
\* the event was deleted, and which still holds the session s2
C12_Witness ==
  /\ lastOp.op = "deleteSession" /\ lastOp.id = "s1"
  /\ lastOp.err = NoError /\ ~lastOp.flag
  /\ seq = 1 /\ events = {}
  /\ DOMAIN sessions = {"s2"}

\* C13: a getAllSessions that returns, returns one record for every stored
\* session and no other record, each equal to the stored session, in
\* non-increasing order of updatedAt; in particular, right after a successful
\* saveEvent or updateSessionMetadata on a session, no session with a strictly
\* smaller updatedAt precedes that session in the result.
C13_AllSessionsOrdered ==
  [][(IsCall /\ lastOp'.op = "getAllSessions" /\ lastOp'.err = NoError)
       => LET recs == lastOp'.recs
          IN /\ Len(recs) = Cardinality(DOMAIN sessions)
             /\ \A s \in DOMAIN sessions : \E i \in 1..Len(recs) : recs[i].id = s
             /\ \A i \in 1..Len(recs) :
                  /\ recs[i].id \in DOMAIN sessions
                  /\ recs[i] = RowToMetadata(recs[i].id, sessions[recs[i].id])
             /\ \A i, j \in 1..Len(recs) : i < j => recs[i].updatedAt >= recs[j].updatedAt
             /\ (lastOp.op \in {"saveEvent", "updateSessionMetadata"} /\ lastOp.err = NoError)
                  => \A i, j \in 1..Len(recs) :
                       (i < j /\ recs[j].id = lastOp.id)
                         => recs[i].updatedAt >= sessions[lastOp.id].updatedAt]_vars
\* getAllSessions returned two sessions with different updatedAt; the one that
\* received an event comes second, after a session created with a later updatedAt
C13_Witness ==
  /\ lastOp.op = "getAllSessions" /\ lastOp.err = NoError
  /\ Len(lastOp.recs) = 2
  /\ lastOp.recs[1].updatedAt > lastOp.recs[2].updatedAt
  /\ EventsOf(lastOp.recs[2].id) # {}

\* C14: getSessionEvents on a session that exists raises no error, whether or
\* not stored payloads of the session are unparseable; it returns one entry per
\* stored event of the session, in (timestamp, id) order; the slot of an event
\* whose text is unparseable holds the placeholder system event, stamped with
\* the time of the call, and every other slot holds the payload that was saved.
C14_CorruptPayloadPlaceholder ==
  [][(IsCall /\ lastOp'.op = "getSessionEvents" /\ Exists(lastOp'.id))
       => LET log == AppendedTo(lastOp'.id)
              evs == lastOp'.evs
              RowOf(k) == CHOOSE e \in events : e.id = k
          IN /\ lastOp'.err = NoError
             /\ Len(evs) = Cardinality(EventsOf(lastOp'.id))
             /\ Len(evs) = Len(log)
             /\ \A i, j \in 1..Len(log) :
                  i < j => \/ RowOf(log[i].id).timestamp < RowOf(log[j].id).timestamp
                           \/ /\ RowOf(log[i].id).timestamp = RowOf(log[j].id).timestamp
                              /\ log[i].id < log[j].id
             /\ \A i \in 1..Len(log) :
                  IF "corrupt" \in DOMAIN log[i]
                    THEN \E reading \in now..now' :
                           evs[i] = [type |-> "system", message |-> "Failed to parse event data",
                                     timestamp |-> reading]
                    ELSE evs[i] = log[i].event]_vars
\* getSessionEvents returned two entries: the placeholder for the first event,
\* whose text was damaged, and the payload of the second
C14_Witness ==
  /\ lastOp.op = "getSessionEvents" /\ lastOp.err = NoError
  /\ Len(lastOp.evs) = 2
  /\ lastOp.evs[1].type = "system"
  /\ lastOp.evs[2] \in Payloads
  /\ \E e \in EventsOf(lastOp.id) : ~WellFormedEvent(e.eventData)

\* C15: a getSessionEvents(S) that directly follows a successful saveEvent(S, P)
\* returns; its last slot is the slot of that event and holds a value equal to
\* P, and the slots before it hold the payloads saved by the earlier saveEvent
\* calls on S, in the order of those calls.
C15_SaveThenReadRoundTrip ==
  [][(IsCall /\ lastOp'.op = "getSessionEvents"
        /\ lastOp.op = "saveEvent" /\ lastOp.err = NoError /\ lastOp.id = lastOp'.id)
       => LET saved == appended[Len(appended)]
              log == AppendedTo(lastOp'.id)
              evs == lastOp'.evs
          IN /\ lastOp'.err = NoError
             /\ saved.sessionId = lastOp'.id
             /\ saved.id = seq
             /\ Len(evs) = Len(log)
             /\ evs[Len(evs)] = saved.event
             /\ saved.event \in Payloads
             /\ \A i \in 1..Len(evs) - 1 : evs[i] = log[i].event]_vars
\* getSessionEvents(s1) returned the payloads a, b of the first two events ever
\* stored, and s1 carries the timestamp of the second
C15_Witness ==
  /\ lastOp.op = "getSessionEvents" /\ lastOp.id = "s1" /\ lastOp.err = NoError
  /\ lastOp.evs = <<[type |-> "a"], [type |-> "b"]>>
  /\ seq = 2
  /\ \E e \in EventsOf("s1") : e.id = 2 /\ e.timestamp = sessions["s1"].updatedAt

\* C16: close raises no error and leaves the handle closed; it changes neither
\* the flag nor the sessions, the events and the id counter; on a store that was
\* never opened or is already closed it changes nothing at all, so a close that
\* directly follows a close changes nothing.
C16_CloseNeverFails ==
  [][(IsCall /\ lastOp'.op = "close")
       => /\ lastOp'.err = NoError
          /\ ~isOpen'
          /\ UNCHANGED <<initialized, sessions, events, seq>>
          /\ ~isOpen => UNCHANGED isOpen
          /\ lastOp.op = "close" => UNCHANGED <<initialized, isOpen, sessions, events, seq>>]_vars
\* close was called on a store that had been opened, holds a session and was
\* already closed
C16_Witness ==
  /\ lastOp.op = "close"
  /\ lastOp.pre.initialized /\ ~lastOp.pre.isOpen
  /\ sessions # <<>>

\* C17: no step changes the id, sessionId, timestamp or text of a stored event,
\* and a stored event leaves the store only in a deleteSession of the session it
\* belongs to: it is kept by every createSession, updateSessionMetadata,
\* saveEvent and read, and by deleteSession of any other session.
C17_EventsImmutable ==
  [][/\ \A e \in events : \A f \in events' : f.id = e.id => f = e
     /\ \A e \in events :
          e \notin events'
            => /\ lastOp'.op \in {"deleteSession", "crash in deleteSession"}
               /\ lastOp'.id = e.sessionId]_vars
\* deleteSession(s2) removed s2 with its event, and the two events of s1, stored
\* before and after the one of s2, are still there
C17_Witness ==
  /\ lastOp.op = "deleteSession" /\ lastOp.id = "s2" /\ lastOp.flag
  /\ lastOp.pre.events = 1
  /\ {e.id : e \in events} = {1, 3}
  /\ \A e \in events : e.sessionId = "s1"

\* C18: no two stored events share an id; every saveEvent that stores an event
\* gives it an id greater than the id of every event stored before it, in any
\* session, also of the events that deleteSession has removed since: the id is
\* greater than the id counter, which no stored id exceeds and which no step
\* decreases.
C18_EventIdsNeverReused ==
  [][/\ \A e, f \in events' : e.id = f.id => e = f
     /\ \A e \in events' : e.id <= seq'
     /\ seq' >= seq
     /\ \A e \in events' \ events :
          /\ e.id > seq
          /\ \A f \in events : e.id > f.id
          /\ lastOp'.op \in {"saveEvent", "crash in saveEvent"}]_vars
\* saveEvent stored the event with id 3 in a store that holds no other event:
\* the events 1 and 2 were removed by deleteSession
C18_Witness ==
  /\ lastOp.op = "saveEvent" /\ lastOp.err = NoError
  /\ {e.id : e \in events} = {3}
  /\ seq = 3

\* C19 (as stated): a getSessionMetadata(id) that directly follows a successful
\* createSession or updateSessionMetadata of the same id returns the record that
\* call returned: the same id, createdAt, updatedAt, name, workingDirectory and
\* tags.
C19_ReturnedRecordIsPersisted ==
  [][(IsCall /\ lastOp'.op = "getSessionMetadata" /\ lastOp'.id = lastOp.id
        /\ lastOp.op \in {"createSession", "updateSessionMetadata"} /\ lastOp.err = NoError)
       => (lastOp'.err = NoError /\ lastOp'.recs = lastOp.recs)]_vars

\* C20 (as stated): an updateSessionMetadata(id, partial) that ends on an open
\* store in which the session is absent, in particular because the session was
\* deleted after the call had read it, fails with "Session not found": it
\* returns no record.
C20_UpdateFailsAfterDelete ==
  (lastOp.op = "updateSessionMetadata" /\ ~lastOp.pre.exists /\ lastOp.pre.isOpen)
    => IsSessionNotFound(lastOp.err)
====
